---- MODULE Spec2Model ----
(***************************************************************************)
(* Model of go/vt/mysqlctl/tmutils/permissions.go: the projection of       *)
(* UserPermission / DbPermission records to (primary key, rendered value), *)
(* the sorted-merge diffPermissions loop nest, DiffPermissions and         *)
(* DiffPermissionsToArray.                                                 *)
(*                                                                         *)
(* Go strings that the code compares or sorts (hosts, users, dbs,          *)
(* privilege names and values, primary keys) are sequences of one-byte     *)
(* strings, so that Go's byte-wise < can be computed.  Strings the code    *)
(* only builds and compares for equality (rendered values, error messages) *)
(* are TLA+ strings built by concatenation.                                *)
(***************************************************************************)
EXTENDS Integers, Sequences, FiniteSets, TLC

VARIABLES
  entry,       \* the exported function called: "DiffPermissions" or "DiffPermissionsToArray"
  leftName, rightName, left, right,   \* its arguments
  erAtCall,    \* the recorder's errors when the call was made
  er,          \* the recorder's errors
  erBefore,    \* the recorder's errors when the running diffPermissions call began
  pc,          \* "diffPermissions" while a diffPermissions call runs, then "done"
  call,        \* which of DiffPermissions' two diffPermissions calls is running
  leftIndex, rightIndex,   \* the locals of the running diffPermissions call
  iterations,  \* loop iterations the running diffPermissions call has made
  result       \* what DiffPermissionsToArray returned

inputs == <<entry, leftName, rightName, left, right, erAtCall>>
vars == <<entry, leftName, rightName, left, right, erAtCall, er, erBefore, pc, call,
          leftIndex, rightIndex, iterations, result>>

(***************************************************************************)
(* Bounds of the model.                                                    *)
(***************************************************************************)
\* Total number of records over the four input lists of a merge input.
MaxRecords == 4

(***************************************************************************)
(* Go strings.                                                             *)
(***************************************************************************)
\* The bytes of the strings of the model, with their ASCII codes.
Upper == << "A", "B", "C", "D", "E", "F", "G", "H", "I", "J", "K", "L", "M",
            "N", "O", "P", "Q", "R", "S", "T", "U", "V", "W", "X", "Y", "Z" >>
Lower == << "a", "b", "c", "d", "e", "f", "g", "h", "i", "j", "k", "l", "m",
            "n", "o", "p", "q", "r", "s", "t", "u", "v", "w", "x", "y", "z" >>
Digits == << "0", "1", "2", "3", "4", "5", "6", "7", "8", "9" >>

\* The byte value of a one-byte string.
Byte ==
  (" " :> 32) @@ ("(" :> 40) @@ (")" :> 41) @@ (":" :> 58) @@ ("_" :> 95)
    @@ [c \in {Digits[i] : i \in 1..10} |-> 47 + (CHOOSE i \in 1..10 : Digits[i] = c)]
    @@ [c \in {Upper[i] : i \in 1..26} |-> 64 + (CHOOSE i \in 1..26 : Upper[i] = c)]
    @@ [c \in {Lower[i] : i \in 1..26} |-> 96 + (CHOOSE i \in 1..26 : Lower[i] = c)]

\* Go's a < b on strings whose first i - 1 bytes agree: byte-wise
\* lexicographic, a proper prefix is smaller.
RECURSIVE StrLessFrom(_, _, _)
StrLessFrom(a, b, i) ==
  IF i > Len(b) THEN FALSE
  ELSE IF i > Len(a) THEN TRUE
  ELSE IF Byte[a[i]] < Byte[b[i]] THEN TRUE
  ELSE IF Byte[a[i]] > Byte[b[i]] THEN FALSE
  ELSE StrLessFrom(a, b, i + 1)

\* Go's a < b on strings (the operands are evaluated once, as Go does before
\* a call).
StrLess(a, b) ==
  CHOOSE r \in {StrLessFrom(x, y, 1) : x \in {a}, y \in {b}} : TRUE

\* The Go string whose bytes are s, from its i-th byte on.
RECURSIVE GoStringFrom(_, _)
GoStringFrom(s, i) == IF i > Len(s) THEN "" ELSE s[i] \o GoStringFrom(s, i + 1)

\* The Go string whose bytes are s.
GoString(s) == CHOOSE r \in {GoStringFrom(v, 1) : v \in {s}} : TRUE

\* fmt's %v of an unsigned integer: its decimal digits.
RECURSIVE FormatUint(_)
FormatUint(n) ==
  IF n < 10 THEN Digits[n + 1]
  ELSE FormatUint(n \div 10) \o Digits[(n % 10) + 1]

\* sort.Strings: the strings of set S in ascending byte-wise order.
RECURSIVE SortStrings(_)
SortStrings(S) ==
  IF S = {} THEN <<>>
  ELSE CHOOSE r \in {<<m>> \o SortStrings(S \ {m}) :
                      m \in {CHOOSE x \in S : \A y \in S \ {x} : StrLess(x, y)}} : TRUE

(***************************************************************************)
(* Record projection and printable formatting.                             *)
(***************************************************************************)
\* The entries of priv for the names si[i], si[i + 1], ...
RECURSIVE printEntries(_, _, _)
printEntries(si, priv, i) ==
  IF i > Len(si) THEN ""
  ELSE " " \o GoString(si[i]) \o "(" \o GoString(priv[si[i]]) \o ")"
           \o printEntries(si, priv, i + 1)

\* printPrivileges: the entries " k(v)" in ascending order of k.
printPrivileges(priv) ==
  CHOOSE r \in {printEntries(si, priv, 1) : si \in {SortStrings(DOMAIN priv)}} : TRUE

UserPermissionPrimaryKey(up) == up.Host \o <<":">> \o up.User

\* UserPermissionString printing the checksum also when it is 0.
UserPermissionStringNoZeroCase(up) ==
  "UserPermission " \o "PasswordChecksum(" \o FormatUint(up.PasswordChecksum) \o ")"
    \o printPrivileges(up.Privileges)

\* UserPermissionString saying only whether there is a password.
UserPermissionStringNoDigits(up) ==
  LET passwd == IF up.PasswordChecksum = 0 THEN "NoPassword" ELSE "PasswordChecksum"
  IN "UserPermission " \o passwd \o printPrivileges(up.Privileges)

UserPermissionString(up) ==
  LET passwd == IF up.PasswordChecksum = 0 THEN "NoPassword"
                ELSE "PasswordChecksum(" \o FormatUint(up.PasswordChecksum) \o ")"
  IN "UserPermission " \o passwd \o printPrivileges(up.Privileges)

DbPermissionPrimaryKey(dp) == dp.Host \o <<":">> \o dp.Db \o <<":">> \o dp.User

DbPermissionString(dp) == "DbPermission" \o printPrivileges(dp.Privileges)

\* permissionList.Get of the list type DiffPermissions passes for a record
\* kind, at 0-based index i: the primary key it returns, and the value.
GetKey(kind, list, i) ==
  IF kind = "user" THEN UserPermissionPrimaryKey(list[i + 1])
  ELSE DbPermissionPrimaryKey(list[i + 1])
GetValue(kind, list, i) ==
  IF kind = "user" THEN UserPermissionString(list[i + 1])
  ELSE DbPermissionString(list[i + 1])

(***************************************************************************)
(* The error recorder (concurrency.AllErrorRecorder).                      *)
(***************************************************************************)
RecordError(errors, msg) == Append(errors, msg)
HasErrors(errors) == Len(errors) > 0
ErrorStrings(errors) == errors

(***************************************************************************)
(* The messages diffPermissions formats.                                   *)
(***************************************************************************)
ExtraError(sideName, kind, pk) ==
  sideName \o " has an extra " \o kind \o " " \o GoString(pk)

DifferError(kind, pk, lName, lval, rName, rval) ==
  "permissions differ on " \o kind \o " " \o GoString(pk) \o ":\n"
    \o lName \o ": " \o lval \o "\n differs from:\n" \o rName \o ": " \o rval

(***************************************************************************)
(* diffPermissions.  A frame f holds the locals leftIndex and rightIndex   *)
(* and the recorder's errors; each loop body maps a frame to the frame     *)
(* after one iteration.                                                    *)
(***************************************************************************)
MergeCond(L, R, f) == f.leftIndex < Len(L) /\ f.rightIndex < Len(R)
LeftTailCond(L, R, f) == ~MergeCond(L, R, f) /\ f.leftIndex < Len(L)
RightTailCond(L, R, f) ==
  ~MergeCond(L, R, f) /\ ~(f.leftIndex < Len(L)) /\ f.rightIndex < Len(R)

\* The merge loop body without its report of differing values.
MergeBodyNoDiffer(kind, lName, L, rName, R, f) ==
  LET lpk == GetKey(kind, L, f.leftIndex)
      rpk == GetKey(kind, R, f.rightIndex)
  IN IF StrLess(lpk, rpk)
     THEN [f EXCEPT !.er = RecordError(@, ExtraError(lName, kind, lpk)),
                    !.leftIndex = @ + 1]
     ELSE IF StrLess(rpk, lpk)
     THEN [f EXCEPT !.er = RecordError(@, ExtraError(rName, kind, rpk)),
                    !.rightIndex = @ + 1]
     ELSE [f EXCEPT !.leftIndex = @ + 1, !.rightIndex = @ + 1]

\* The merge loop body with its two key comparisons the wrong way round.
MergeBodyReversed(kind, lName, L, rName, R, f) ==
  LET lpk == GetKey(kind, L, f.leftIndex)
      lval == GetValue(kind, L, f.leftIndex)
      rpk == GetKey(kind, R, f.rightIndex)
      rval == GetValue(kind, R, f.rightIndex)
  IN IF StrLess(rpk, lpk)
     THEN [f EXCEPT !.er = RecordError(@, ExtraError(lName, kind, lpk)),
                    !.leftIndex = @ + 1]
     ELSE IF StrLess(lpk, rpk)
     THEN [f EXCEPT !.er = RecordError(@, ExtraError(rName, kind, rpk)),
                    !.rightIndex = @ + 1]
     ELSE [f EXCEPT !.er = IF lval # rval
                           THEN RecordError(@, DifferError(kind, lpk, lName, lval, rName, rval))
                           ELSE @,
                    !.leftIndex = @ + 1,
                    !.rightIndex = @ + 1]

\* The merge loop body reporting equal keys without comparing the values.
MergeBodyAlwaysDiffer(kind, lName, L, rName, R, f) ==
  LET lpk == GetKey(kind, L, f.leftIndex)
      lval == GetValue(kind, L, f.leftIndex)
      rpk == GetKey(kind, R, f.rightIndex)
      rval == GetValue(kind, R, f.rightIndex)
  IN IF StrLess(lpk, rpk)
     THEN [f EXCEPT !.er = RecordError(@, ExtraError(lName, kind, lpk)),
                    !.leftIndex = @ + 1]
     ELSE IF StrLess(rpk, lpk)
     THEN [f EXCEPT !.er = RecordError(@, ExtraError(rName, kind, rpk)),
                    !.rightIndex = @ + 1]
     ELSE [f EXCEPT !.er = RecordError(@, DifferError(kind, lpk, lName, lval, rName, rval)),
                    !.leftIndex = @ + 1,
                    !.rightIndex = @ + 1]

\* The merge loop body naming the left side for an extra record of the right.
MergeBodyLeftLabel(kind, lName, L, rName, R, f) ==
  LET lpk == GetKey(kind, L, f.leftIndex)
      lval == GetValue(kind, L, f.leftIndex)
      rpk == GetKey(kind, R, f.rightIndex)
      rval == GetValue(kind, R, f.rightIndex)
  IN IF StrLess(lpk, rpk)
     THEN [f EXCEPT !.er = RecordError(@, ExtraError(lName, kind, lpk)),
                    !.leftIndex = @ + 1]
     ELSE IF StrLess(rpk, lpk)
     THEN [f EXCEPT !.er = RecordError(@, ExtraError(lName, kind, rpk)),
                    !.rightIndex = @ + 1]
     ELSE [f EXCEPT !.er = IF lval # rval
                           THEN RecordError(@, DifferError(kind, lpk, lName, lval, rName, rval))
                           ELSE @,
                    !.leftIndex = @ + 1,
                    !.rightIndex = @ + 1]

\* The merge loop body that reports differing values and goes round again
\* without moving on.
MergeBodyStuck(kind, lName, L, rName, R, f) ==
  LET lpk == GetKey(kind, L, f.leftIndex)
      lval == GetValue(kind, L, f.leftIndex)
      rpk == GetKey(kind, R, f.rightIndex)
      rval == GetValue(kind, R, f.rightIndex)
  IN IF StrLess(lpk, rpk)
     THEN [f EXCEPT !.er = RecordError(@, ExtraError(lName, kind, lpk)),
                    !.leftIndex = @ + 1]
     ELSE IF StrLess(rpk, lpk)
     THEN [f EXCEPT !.er = RecordError(@, ExtraError(rName, kind, rpk)),
                    !.rightIndex = @ + 1]
     ELSE IF lval # rval
     THEN [f EXCEPT !.er = RecordError(@, DifferError(kind, lpk, lName, lval, rName, rval))]
     ELSE [f EXCEPT !.leftIndex = @ + 1, !.rightIndex = @ + 1]

\* The body of the merge loop.
MergeBody(kind, lName, L, rName, R, f) ==
  LET lpk == GetKey(kind, L, f.leftIndex)
      lval == GetValue(kind, L, f.leftIndex)
      rpk == GetKey(kind, R, f.rightIndex)
      rval == GetValue(kind, R, f.rightIndex)
  IN IF StrLess(lpk, rpk)
     THEN [f EXCEPT !.er = RecordError(@, ExtraError(lName, kind, lpk)),
                    !.leftIndex = @ + 1]
     ELSE IF StrLess(rpk, lpk)
     THEN [f EXCEPT !.er = RecordError(@, ExtraError(rName, kind, rpk)),
                    !.rightIndex = @ + 1]
     ELSE [f EXCEPT !.er = IF lval # rval
                           THEN RecordError(@, DifferError(kind, lpk, lName, lval, rName, rval))
                           ELSE @,
                    !.leftIndex = @ + 1,
                    !.rightIndex = @ + 1]

\* The body of the loop over the rest of left.
LeftTailBody(kind, lName, L, f) ==
  LET lpk == GetKey(kind, L, f.leftIndex)
  IN [f EXCEPT !.er = RecordError(@, ExtraError(lName, kind, lpk)),
               !.leftIndex = @ + 1]

\* The loop over the rest of right reporting the value in place of the key.
RightTailBodyValue(kind, rName, R, f) ==
  LET rval == GetValue(kind, R, f.rightIndex)
  IN [f EXCEPT !.er = RecordError(@, rName \o " has an extra " \o kind \o " " \o rval),
               !.rightIndex = @ + 1]

\* The body of the loop over the rest of right.
RightTailBody(kind, rName, R, f) ==
  LET rpk == GetKey(kind, R, f.rightIndex)
  IN [f EXCEPT !.er = RecordError(@, ExtraError(rName, kind, rpk)),
               !.rightIndex = @ + 1]

\* One call of diffPermissions run to its return, from frame f.
RECURSIVE diffPermissions(_, _, _, _, _, _)
diffPermissions(kind, lName, L, rName, R, f) ==
  IF MergeCond(L, R, f)
  THEN diffPermissions(kind, lName, L, rName, R, MergeBody(kind, lName, L, rName, R, f))
  ELSE IF LeftTailCond(L, R, f)
  THEN diffPermissions(kind, lName, L, rName, R, LeftTailBody(kind, lName, L, f))
  ELSE IF RightTailCond(L, R, f)
  THEN diffPermissions(kind, lName, L, rName, R, RightTailBody(kind, rName, R, f))
  ELSE f.er

Frame(errors) == [leftIndex |-> 0, rightIndex |-> 0, er |-> errors]

\* DiffPermissions diffing the db grants before the user grants.
CallsDbFirst == <<"db", "user">>

\* The record kinds DiffPermissions diffs, in the order of its two calls.
Calls == <<"user", "db">>

\* The list DiffPermissions passes to diffPermissions for a record kind.
ListOf(kind, permissions) ==
  IF kind = "user" THEN permissions.UserPermissions ELSE permissions.DbPermissions

\* The errors recorded after the whole of DiffPermissions.
DiffPermissions(lName, l, rName, r, errors) ==
  diffPermissions(Calls[2], lName, ListOf(Calls[2], l), rName, ListOf(Calls[2], r),
    Frame(diffPermissions(Calls[1], lName, ListOf(Calls[1], l), rName, ListOf(Calls[1], r),
                          Frame(errors))))

\* What DiffPermissionsToArray returns for the recorder's errors.
NilResult == [isNil |-> TRUE, strings |-> <<>>]
ToArrayResult(errors) ==
  IF HasErrors(errors) THEN [isNil |-> FALSE, strings |-> ErrorStrings(errors)]
  ELSE NilResult

(***************************************************************************)
(* Inputs.                                                                 *)
(***************************************************************************)
SelectPriv == <<"S", "e", "l", "e", "c", "t", "_", "p", "r", "i", "v">>
NoPrivileges == [k \in {} |-> <<>>]
PrivY == SelectPriv :> <<"Y">>
PrivN == SelectPriv :> <<"N">>
\* Two different mappings that print alike, as " a() b()".
PrivParen == <<"a">> :> <<")", " ", "b", "(">>
PrivTwo == (<<"b">> :> <<>>) @@ (<<"a">> :> <<>>)
\* Names whose byte order differs from their case-insensitive order.
PrivCase == (<<"a">> :> <<"Y">>) @@ (<<"B">> :> <<"N">>)

UserPermission(host, user, checksum, priv) ==
  [Host |-> host, User |-> user, PasswordChecksum |-> checksum, Privileges |-> priv]
DbPermission(host, db, user, priv) ==
  [Host |-> host, Db |-> db, User |-> user, Privileges |-> priv]

\* The records of merge inputs: three user keys and two db keys.
UserRecords ==
  { UserPermission(<<"a">>, <<"x">>, 5, NoPrivileges),
    UserPermission(<<"a">>, <<"x">>, 12, NoPrivileges),
    UserPermission(<<"B">>, <<"y">>, 0, PrivY),
    UserPermission(<<"h">>, <<"a">>, 0, PrivY),
    UserPermission(<<"h">>, <<"a">>, 0, PrivN) }
DbRecords ==
  { DbPermission(<<"h">>, <<"d">>, <<"u">>, NoPrivileges),
    DbPermission(<<"h">>, <<"d">>, <<"u">>, PrivY),
    DbPermission(<<"a">>, <<"d">>, <<"u">>, PrivCase) }

\* The records of pair inputs: one user key, every checksum and mapping.
Checksums == {0, 5, 12, 120}
PrivMaps == {NoPrivileges, PrivY, PrivN, PrivParen, PrivTwo, PrivCase}
PairRecords ==
  { UserPermission(<<"h">>, <<"a">>, c, p) : c \in Checksums, p \in PrivMaps }

Permissions(users, dbs) == [UserPermissions |-> users, DbPermissions |-> dbs]

NoPermissions == Permissions(<<>>, <<>>)

\* Nothing has been called yet.
Init ==
  /\ entry = "none"
  /\ leftName = "" /\ rightName = ""
  /\ left = NoPermissions /\ right = NoPermissions
  /\ erAtCall = <<>>
  /\ er = <<>>
  /\ erBefore = <<>>
  /\ pc = "idle"
  /\ call = 1
  /\ leftIndex = 0
  /\ rightIndex = 0
  /\ iterations = 0
  /\ result = NilResult

\* DiffPermissionsToArray on lists of MaxRecords records in all, in any order.
MergeInput ==
  /\ entry' = "DiffPermissionsToArray"
  /\ leftName' = "left" /\ rightName' = "right"
  /\ erAtCall' = <<>>
  /\ \E a, b, c, d \in 0..MaxRecords :
       /\ a + b + c + d <= MaxRecords
       /\ \E lu \in [1..a -> UserRecords], ru \in [1..b -> UserRecords],
             ld \in [1..c -> DbRecords], rd \in [1..d -> DbRecords] :
            /\ left' = Permissions(lu, ld)
            /\ right' = Permissions(ru, rd)

\* DiffPermissionsToArray on one user record a side.
PairInput ==
  /\ entry' = "DiffPermissionsToArray"
  /\ leftName' = "left" /\ rightName' = "right"
  /\ erAtCall' = <<>>
  /\ \E l, r \in PairRecords :
       /\ left' = Permissions(<<l>>, <<>>)
       /\ right' = Permissions(<<r>>, <<>>)

\* DiffPermissions on a recorder that holds an error already, with other
\* names, on lists of at most one record.
RecorderInput ==
  /\ entry' = "DiffPermissions"
  /\ leftName' = "primary" /\ rightName' = "replica"
  /\ erAtCall' = <<"earlier error">>
  /\ \E lu, ru \in UNION {[1..n -> UserRecords] : n \in 0..1},
        ld, rd \in UNION {[1..n -> DbRecords] : n \in 0..1} :
       /\ left' = Permissions(lu, ld)
       /\ right' = Permissions(ru, rd)

\* The exported function is called: DiffPermissionsToArray makes its
\* recorder, and DiffPermissions makes its first diffPermissions call.
Call ==
  /\ pc = "idle"
  /\ MergeInput \/ PairInput \/ RecorderInput
  /\ er' = erAtCall'
  /\ erBefore' = erAtCall'
  /\ pc' = "diffPermissions"
  /\ call' = 1
  /\ leftIndex' = 0
  /\ rightIndex' = 0
  /\ iterations' = 0
  /\ UNCHANGED result

(***************************************************************************)
(* The steps of the running call.                                          *)
(***************************************************************************)
name == Calls[call]
Left == ListOf(name, left)
Right == ListOf(name, right)
Locals == [leftIndex |-> leftIndex, rightIndex |-> rightIndex, er |-> er]

Iterate(f) ==
  \E after \in {f} :
    /\ leftIndex' = after.leftIndex
    /\ rightIndex' = after.rightIndex
    /\ er' = after.er
    /\ iterations' = iterations + 1
    /\ UNCHANGED <<inputs, erBefore, pc, call, result>>

MergeIteration ==
  /\ pc = "diffPermissions"
  /\ MergeCond(Left, Right, Locals)
  /\ Iterate(MergeBody(name, leftName, Left, rightName, Right, Locals))

LeftTailIteration ==
  /\ pc = "diffPermissions"
  /\ LeftTailCond(Left, Right, Locals)
  /\ Iterate(LeftTailBody(name, leftName, Left, Locals))

RightTailIteration ==
  /\ pc = "diffPermissions"
  /\ RightTailCond(Left, Right, Locals)
  /\ Iterate(RightTailBody(name, rightName, Right, Locals))

LoopsDone ==
  /\ ~MergeCond(Left, Right, Locals)
  /\ ~(leftIndex < Len(Left))
  /\ ~(rightIndex < Len(Right))

\* The first diffPermissions call returns and DiffPermissions makes the second.
SecondCall ==
  /\ pc = "diffPermissions"
  /\ call = 1
  /\ LoopsDone
  /\ call' = 2
  /\ leftIndex' = 0
  /\ rightIndex' = 0
  /\ iterations' = 0
  /\ erBefore' = er
  /\ UNCHANGED <<inputs, er, pc, result>>

\* The second call returns, DiffPermissions returns, and DiffPermissionsToArray
\* returns the recorder's strings or nil.
Return ==
  /\ pc = "diffPermissions"
  /\ call = 2
  /\ LoopsDone
  /\ pc' = "done"
  /\ result' = IF entry = "DiffPermissionsToArray" THEN ToArrayResult(er) ELSE result
  /\ UNCHANGED <<inputs, er, erBefore, call, leftIndex, rightIndex, iterations>>

\* The steps of a call that has been made.
Step ==
  \/ MergeIteration
  \/ LeftTailIteration
  \/ RightTailIteration
  \/ SecondCall
  \/ Return

Next == Call \/ Step

Spec == Init /\ [][Next]_vars

\* Whether the call is made is up to the caller; once made it is sequential
\* code, and a step that can be taken is taken.
FairSpec == Spec /\ WF_vars(Step)

(***************************************************************************)
(* Vocabulary of the properties.                                           *)
(***************************************************************************)
\* The messages the running diffPermissions call has recorded so far.
Recorded == SubSeq(er, Len(erBefore) + 1, Len(er))

\* The running diffPermissions call has left its three loops.
AtExit == pc # "idle" /\ LoopsDone

KeyAt(kind, list, i) == GetKey(kind, list, i - 1)
ValueAt(kind, list, i) == GetValue(kind, list, i - 1)
Keys(kind, list) == {KeyAt(kind, list, i) : i \in 1..Len(list)}
ValueOf(kind, list, k) ==
  ValueAt(kind, list, CHOOSE i \in 1..Len(list) : KeyAt(kind, list, i) = k)

\* Strictly increasing by primary key: sorted, no duplicate keys.
StrictlyIncreasing(kind, list) ==
  \A i, j \in 1..Len(list) :
    i < j => StrLess(KeyAt(kind, list, i), KeyAt(kind, list, j))
Precondition ==
  StrictlyIncreasing(name, Left) /\ StrictlyIncreasing(name, Right)

LeftOnly == Keys(name, Left) \ Keys(name, Right)
RightOnly == Keys(name, Right) \ Keys(name, Left)
Differing ==
  {k \in Keys(name, Left) \cap Keys(name, Right) :
     ValueOf(name, Left, k) # ValueOf(name, Right, k)}
LeftExtra(k) == ExtraError(leftName, name, k)
RightExtra(k) == ExtraError(rightName, name, k)
Differ(k) ==
  DifferError(name, k, leftName, ValueOf(name, Left, k),
              rightName, ValueOf(name, Right, k))
Occurrences(m) == Cardinality({i \in 1..Len(Recorded) : Recorded[i] = m})

\* C1: for inputs strictly increasing by key, a finished diffPermissions call
\* has recorded exactly one left-extra message for every key only in left, one
\* right-extra message for every key only in right, one "permissions differ"
\* message for every key on both sides whose rendered values differ, and
\* nothing else (so nothing for a key whose rendered values are equal).
C1_ExactMessages ==
  (AtExit /\ Precondition) =>
    /\ {Recorded[i] : i \in 1..Len(Recorded)} =
         {LeftExtra(k) : k \in LeftOnly} \cup {RightExtra(k) : k \in RightOnly}
           \cup {Differ(k) : k \in Differing}
    /\ \A k \in LeftOnly : Occurrences(LeftExtra(k)) = 1
    /\ \A k \in RightOnly : Occurrences(RightExtra(k)) = 1
    /\ \A k \in Differing : Occurrences(Differ(k)) = 1
    /\ Len(Recorded) =
         Cardinality(LeftOnly) + Cardinality(RightOnly) + Cardinality(Differing)

\* A finished call on sorted inputs with a left extra, a right extra and a
\* value mismatch.
C1_Witness ==
  /\ AtExit /\ Precondition
  /\ LeftOnly # {} /\ RightOnly # {} /\ Differing # {}
  /\ Len(Recorded) = 3

\* The messages diffPermissions can record about key k.
MessagesAbout(k) ==
  {LeftExtra(k), RightExtra(k)}
    \cup (IF k \in Keys(name, Left) \cap Keys(name, Right) THEN {Differ(k)} ELSE {})
AllKeys == Keys(name, Left) \cup Keys(name, Right)
IsMessage(m) == \E k \in AllKeys : m \in MessagesAbout(k)
KeyOf(m) == CHOOSE k \in AllKeys : m \in MessagesAbout(k)

\* C2: for inputs strictly increasing by key, the messages one diffPermissions
\* call has recorded are, at every point of the call, in strictly increasing
\* order of the key they are about, the tail loops' messages included.
C2_IncreasingKeys ==
  Precondition =>
    /\ \A i \in 1..Len(Recorded) : IsMessage(Recorded[i])
    /\ \A i, j \in 1..Len(Recorded) :
         i < j => StrLess(KeyOf(Recorded[i]), KeyOf(Recorded[j]))

\* A finished call on sorted inputs that recorded a left extra, then a value
\* mismatch, then, from the loop over the rest of right, a right extra.
C2_Witness ==
  /\ AtExit /\ Precondition
  /\ Len(Recorded) = 3
  /\ \E k \in LeftOnly : Recorded[1] = LeftExtra(k)
  /\ \E k \in Differing : Recorded[2] = Differ(k)
  /\ \E k \in RightOnly : Recorded[3] = RightExtra(k)
  /\ leftIndex = 2 /\ rightIndex = 2 /\ iterations = 3

\* The two snapshots have, for a record kind, the same keys in the same order
\* with the same rendered values.
Identical(kind) ==
  LET L == ListOf(kind, left)
      R == ListOf(kind, right)
  IN /\ Len(L) = Len(R)
     /\ \A i \in 1..Len(L) :
          /\ KeyAt(kind, L, i) = KeyAt(kind, R, i)
          /\ ValueAt(kind, L, i) = ValueAt(kind, R, i)

\* C3: after the diff of a snapshot against a structurally identical one the
\* recorder holds no new error and DiffPermissionsToArray has returned nil;
\* and DiffPermissionsToArray returns a non-empty list exactly when at least
\* one discrepancy was recorded, the list being the recorded messages.
C3_IdenticalIsSilent ==
  pc = "done" =>
    /\ (Identical("user") /\ Identical("db")) =>
         /\ er = erAtCall
         /\ entry = "DiffPermissionsToArray" => result.isNil
    /\ entry = "DiffPermissionsToArray" =>
         /\ (~result.isNil /\ Len(result.strings) > 0) <=> Len(er) > Len(erAtCall)
         /\ ~result.isNil => result.strings = er
         /\ result.isNil => result.strings = <<>>

\* DiffPermissionsToArray has returned nil for two identical snapshots that
\* hold user grants and db grants.
C3_Witness ==
  /\ pc = "done"
  /\ entry = "DiffPermissionsToArray"
  /\ Identical("user") /\ Identical("db")
  /\ Len(left.UserPermissions) >= 1 /\ Len(left.DbPermissions) >= 1
  /\ result.isNil

\* What the running call records when its two lists change places and the
\* names stay where they are.
Swapped == diffPermissions(name, leftName, Right, rightName, Left, Frame(<<>>))

\* C4: for inputs strictly increasing by key, the diff of (Y, X) records as
\* many messages as the diff of (X, Y), about the same keys in the same order;
\* where one has "<first name> has an extra <kind> K" the other has
\* "<second name> has an extra <kind> K", and a key only in X is reported with
\* the first name by (X, Y) and with the second name by (Y, X).
C4_SwapFlipsSide ==
  (AtExit /\ Precondition) =>
    /\ Len(Swapped) = Len(Recorded)
    /\ \A k \in LeftOnly :
         /\ \E i \in 1..Len(Recorded) : Recorded[i] = LeftExtra(k)
         /\ \E i \in 1..Len(Swapped) : Swapped[i] = RightExtra(k)
    /\ \A k \in RightOnly :
         /\ \E i \in 1..Len(Recorded) : Recorded[i] = RightExtra(k)
         /\ \E i \in 1..Len(Swapped) : Swapped[i] = LeftExtra(k)
    /\ \A i \in 1..Len(Recorded) :
         /\ IsMessage(Recorded[i])
         /\ \A k \in AllKeys :
              /\ Recorded[i] = LeftExtra(k) => Swapped[i] = RightExtra(k)
              /\ Recorded[i] = RightExtra(k) => Swapped[i] = LeftExtra(k)
              /\ (k \in Differing /\ Recorded[i] = Differ(k)) =>
                   Swapped[i] = DifferError(name, k, leftName, ValueOf(name, Right, k),
                                            rightName, ValueOf(name, Left, k))

\* A finished diff of db grants with an extra on each side.
C4_Witness ==
  /\ AtExit /\ Precondition
  /\ name = "db"
  /\ LeftOnly # {} /\ RightOnly # {}
  /\ Len(Recorded) = 2

\* C5: for inputs strictly increasing by key, two records with the same key
\* and different privilege mappings get exactly one "permissions differ"
\* message for that key and no "has an extra" message.
C5_MappingMismatchReported ==
  (AtExit /\ Precondition) =>
    \A i \in 1..Len(Left), j \in 1..Len(Right) :
      (/\ KeyAt(name, Left, i) = KeyAt(name, Right, j)
       /\ Left[i].Privileges # Right[j].Privileges) =>
        LET k == KeyAt(name, Left, i)
        IN /\ Occurrences(Differ(k)) = 1
           /\ Occurrences(LeftExtra(k)) = 0
           /\ Occurrences(RightExtra(k)) = 0

\* The user grants of the example: h:a with Select_priv Y against N.
ExampleLeft == UserPermission(<<"h">>, <<"a">>, 0, PrivY)
ExampleRight == UserPermission(<<"h">>, <<"a">>, 0, PrivN)
ExampleInput ==
  /\ leftName = "left" /\ rightName = "right"
  /\ left = Permissions(<<ExampleLeft>>, <<>>)
  /\ right = Permissions(<<ExampleRight>>, <<>>)

\* C6 as stated: the rendered value of a user grant starts with the password
\* part, so the example yields the message without any prefix.
C6_ExampleAsStated ==
  (pc = "done" /\ ExampleInput) =>
    er = <<"permissions differ on user h:a:\nleft: NoPassword Select_priv(Y)\n differs from:\nright: NoPassword Select_priv(N)">>

\* The password part and the privileges part of a rendered user grant, written
\* out for the checksums and mappings of the inputs.
PasswordPart(checksum) ==
  CASE checksum = 0 -> "NoPassword"
    [] checksum = 5 -> "PasswordChecksum(5)"
    [] checksum = 12 -> "PasswordChecksum(12)"
    [] checksum = 120 -> "PasswordChecksum(120)"
PrivilegesPart(priv) ==
  CASE priv = NoPrivileges -> ""
    [] priv = PrivY -> " Select_priv(Y)"
    [] priv = PrivN -> " Select_priv(N)"
    [] priv = PrivParen -> " a() b()"
    [] priv = PrivTwo -> " a() b()"
    [] priv = PrivCase -> " B(N) a(Y)"
Rendered(up) ==
  "UserPermission " \o PasswordPart(up.PasswordChecksum) \o PrivilegesPart(up.Privileges)
RecordOf(list, k) ==
  list[CHOOSE i \in 1..Len(list) : KeyAt("user", list, i) = k]

\* C6, amended: the rendered value of a user grant is "UserPermission "
\* followed by "NoPassword" (checksum 0) or "PasswordChecksum(<decimal>)",
\* followed by the privileges as " key(value)" in ascending key order; the
\* example yields the one message with "UserPermission " before "NoPassword".
C6_RenderedWithPrefix ==
  /\ (AtExit /\ name = "user" /\ Precondition) =>
       \A k \in Differing :
         \E i \in 1..Len(Recorded) :
           Recorded[i] =
             "permissions differ on user " \o GoString(k) \o ":\n"
               \o leftName \o ": " \o Rendered(RecordOf(Left, k))
               \o "\n differs from:\n"
               \o rightName \o ": " \o Rendered(RecordOf(Right, k))
  /\ (pc = "done" /\ ExampleInput) =>
       er = <<"permissions differ on user h:a:\nleft: UserPermission NoPassword Select_priv(Y)\n differs from:\nright: UserPermission NoPassword Select_priv(N)">>

\* The diff of the example has returned with its one message.
C6_Witness == pc = "done" /\ ExampleInput /\ Len(er) = 1

\* The db grants of the example: none on the left, h:d:u on the right.
DbExampleInput ==
  /\ leftName = "left" /\ rightName = "right"
  /\ name = "db"
  /\ Left = <<>>
  /\ Right = <<DbPermission(<<"h">>, <<"d">>, <<"u">>, NoPrivileges)>>

\* C7 as stated: the one message names the left side.
C7_ExampleAsStated ==
  (AtExit /\ DbExampleInput) => Recorded = <<"left has an extra db h:d:u">>

\* C7, amended: with no db grants on the left and the one db grant h:d:u on
\* the right the diff of db grants records exactly one message, and it is
\* "right has an extra db h:d:u".
C7_ExtraOnRight ==
  (AtExit /\ DbExampleInput) => Recorded = <<"right has an extra db h:d:u">>

\* The diff of db grants of the example has finished.
C7_Witness == AtExit /\ DbExampleInput /\ Len(Recorded) = 1 /\ iterations = 1

\* C8: for inputs strictly increasing by key, two user grants with the same
\* key and different checksums get the value-mismatch message for that key,
\* whatever their privileges; with checksum 0 on both sides and the same
\* privileges they render alike and get no message.
C8_ChecksumDecides ==
  (AtExit /\ name = "user" /\ Precondition) =>
    \A i \in 1..Len(Left), j \in 1..Len(Right) :
      KeyAt(name, Left, i) = KeyAt(name, Right, j) =>
        LET k == KeyAt(name, Left, i)
        IN /\ Left[i].PasswordChecksum # Right[j].PasswordChecksum =>
                /\ ValueAt(name, Left, i) # ValueAt(name, Right, j)
                /\ Occurrences(Differ(k)) = 1
           /\ (/\ Left[i].PasswordChecksum = 0
               /\ Right[j].PasswordChecksum = 0
               /\ Left[i].Privileges = Right[j].Privileges) =>
                /\ ValueAt(name, Left, i) = ValueAt(name, Right, j)
                /\ \A m \in MessagesAbout(k) : Occurrences(m) = 0

\* A finished diff of two user grants with the same key, no password on one
\* side, a password on the other, and different privileges.
C8_Witness ==
  /\ AtExit /\ name = "user" /\ Precondition
  /\ Len(Left) = 1 /\ Len(Right) = 1
  /\ KeyAt(name, Left, 1) = KeyAt(name, Right, 1)
  /\ Left[1].PasswordChecksum = 0 /\ Right[1].PasswordChecksum # 0
  /\ Left[1].Privileges # Right[1].Privileges
  /\ Len(Recorded) = 1

\* What a diffPermissions call on the user grants, and one on the db grants,
\* records in an empty recorder.
UserMessages ==
  diffPermissions("user", leftName, left.UserPermissions,
                  rightName, right.UserPermissions, Frame(<<>>))
DbMessages ==
  diffPermissions("db", leftName, left.DbPermissions,
                  rightName, right.DbPermissions, Frame(<<>>))
IsPrefix(s, t) == Len(s) <= Len(t) /\ SubSeq(t, 1, Len(s)) = s
\* The errors recorded since DiffPermissions was called.
Added == SubSeq(er, Len(erAtCall) + 1, Len(er))

\* C9: DiffPermissions only appends to the recorder: the errors it held at
\* the call stay in place and every step keeps what is recorded; what the call
\* has added so far is always a prefix of the user-grant messages followed by
\* the db-grant messages, so no db message comes before a user message; after
\* the call the recorder holds the earlier errors, then every user-grant
\* message, then every db-grant message; the two snapshots are never changed.
C9_AppendsUserThenDb ==
  /\ [](\A um \in {UserMessages}, dm \in {DbMessages} :
          /\ IsPrefix(erAtCall, er)
          /\ IsPrefix(Added, um \o dm)
          /\ call = 1 => IsPrefix(Added, um)
          /\ pc = "done" => er = erAtCall \o um \o dm)
  /\ [][pc # "idle" => IsPrefix(er, er') /\ left' = left /\ right' = right]_vars

\* DiffPermissions has returned on a recorder that held an error, having
\* recorded user-grant and db-grant messages.
C9_Witness ==
  /\ pc = "done"
  /\ entry = "DiffPermissions"
  /\ erAtCall # <<>>
  /\ UserMessages # <<>> /\ DbMessages # <<>>

\* C10: on any inputs, sorted or not, every loop iteration of diffPermissions
\* moves leftIndex + rightIndex up by at least one and each index by at most
\* one, no index passes the length of its list, a call makes at most
\* len(left) + len(right) iterations, both indices equal the lengths when the
\* call returns, and the whole call terminates.
C10_Terminates ==
  /\ [](/\ leftIndex <= Len(Left) /\ rightIndex <= Len(Right)
        /\ iterations <= Len(Left) + Len(Right)
        /\ iterations <= leftIndex + rightIndex
        /\ pc = "done" => leftIndex = Len(Left) /\ rightIndex = Len(Right))
  /\ [][/\ iterations' = iterations + 1 =>
             /\ leftIndex' + rightIndex' >= leftIndex + rightIndex + 1
             /\ leftIndex' \in {leftIndex, leftIndex + 1}
             /\ rightIndex' \in {rightIndex, rightIndex + 1}
        /\ (call' # call \/ pc' # pc) =>
             leftIndex = Len(Left) /\ rightIndex = Len(Right)]_vars
  /\ (pc = "diffPermissions") ~> (pc = "done")

\* The call has returned on user grants that are out of order on the left
\* and repeat a key on the right.
C10_Witness ==
  /\ pc = "done"
  /\ Len(left.UserPermissions) = 2 /\ Len(right.UserPermissions) = 2
  /\ StrLess(KeyAt("user", left.UserPermissions, 2), KeyAt("user", left.UserPermissions, 1))
  /\ KeyAt("user", right.UserPermissions, 1) = KeyAt("user", right.UserPermissions, 2)

====
